---------------------------- MODULE Spec2Model ----------------------------
(***************************************************************************)
(* Model of the eliza plugins of MemeWaveAI:                               *)
(*   - the Birdeye provider (two-tier cache, fetchWithRetry),              *)
(*   - the Avalanche SWAP_TOKEN action handler,                            *)
(*   - createGoatPlugin,                                                   *)
(*   - the XMTP bootstrap.                                                 *)
(* Each component has its own specification (SpecCache, SpecFetch,         *)
(* SpecSwap, SpecGoat, SpecXmtp); the variables of the other components    *)
(* stay at their initial values.                                           *)
(*                                                                         *)
(* JavaScript values are written as strings: "undefined" is the absent     *)
(* value (undefined / null), "0" the number 0 (falsy), "{a}" and "{b}"      *)
(* two objects (truthy).                                                   *)
(***************************************************************************)
EXTENDS Integers, Sequences, FiniteSets, TLC

VARIABLES
    \* ---- BaseCachedProvider / cacheManager
    now,        \* Date.now(), in ms
    fs,         \* the file-backed cache behind cacheManager: key -> entry
    mem,        \* this.cache of each provider: provider -> key -> entry
    ttlArg,     \* the ttl argument each provider was constructed with
    calls,      \* the readFromCache / writeToCache calls in flight
    last,       \* the call that completed in the last step, if one did
    started,    \* number of calls made so far
    \* ---- BirdeyeProvider.fetchWithRetry and the fetch operations
    maxRetriesArg, \* the maxRetries argument of the BirdeyeProvider constructor
    fpc,        \* position of the current fetch operation
    url,        \* the url of the current fetch operation
    attempts,   \* local variable attempts of fetchWithRetry
    flog,       \* events of the current fetchWithRetry call (attempts and waits)
    fres,       \* outcome of the last fetch operation
    reqs,       \* every HTTP request issued so far (its url and time)
    fetches,    \* the fetch operations called so far
    \* ---- birdeyeProvider.get
    walletAddr, \* local variable walletAddr of the get call in progress
    getpc,      \* position of the get call in progress
    gets,       \* every get call that has ended and what it resolved to
    \* ---- SWAP_TOKEN handler
    content,    \* the object generateObject returned
    hasCallback,\* whether a callback was passed to the handler
    spc,        \* position of the handler
    chain,      \* the chain function calls made and resolved so far, in order
    tx,         \* local variable tx (result of approve)
    swapTx,     \* local variable swapTx (result of swap)
    receipt,    \* local variable receipt (its status)
    cbs,        \* the callback invocations so far (text and error)
    sret,       \* what the handler returned
    \* ---- createGoatPlugin
    settings,   \* what getSetting answers for each key
    hasRuntime, \* whether a runtime was passed
    gpc,        \* position of createGoatPlugin
    gerr,       \* the error createGoatPlugin threw (its message parts)
    effects,    \* external calls made so far (Connection, Twitter start, ...)
    twitterService, \* local variable twitterService
    plugin,     \* the plugin returned
    inputs,     \* what getOnChainActions returned and the imported solanaPlugin
    tweets,     \* outcome of each tweetTrade call made by the on-chain actions
    \* ---- startXmtpClient
    xpc,        \* position of startXmtpClient
    xmtp,       \* the binding const xmtp: "uninitialized" or "client"
    msgs,       \* every onMessage invocation and what it did
    sends       \* every xmtp.send call (its text)

cacheVars == <<now, fs, mem, ttlArg, calls, last, started>>
getVars   == <<walletAddr, getpc, gets>>
fetchVars == <<maxRetriesArg, fpc, url, attempts, flog, fres, reqs, fetches, getVars>>
swapVars  == <<content, hasCallback, spc, chain, tx, swapTx, receipt, cbs, sret>>
goatVars  == <<settings, hasRuntime, gpc, gerr, effects, twitterService, plugin, inputs, tweets>>
xmtpVars  == <<xpc, xmtp, msgs, sends>>
vars == <<cacheVars, fetchVars, swapVars, goatVars, xmtpVars>>

(***************************************************************************)
(* JavaScript truthiness of the modelled values.                           *)
(***************************************************************************)
Truthy(v) == v \notin {"undefined", "0", ""}

\* An optional numeric argument is <<>> when omitted and <<n>> when given.
\* OrDefault(arg, d) is the JavaScript expression  arg || d.
OrDefault(arg, d) == IF arg = <<>> \/ arg[1] = 0 THEN d ELSE arg[1]

----------------------------------------------------------------------------
(***************************************************************************)
(* BaseCachedProvider: the two-tier cache.                                 *)
(***************************************************************************)
MaxCalls == 2
MaxTicks == 3

DEFAULT_STD_TTL == 300
FS_EXPIRY_MS == 5 * 60 * 1000
\* The clock advances in steps of half the file expiry.
TickMs == FS_EXPIRY_MS \div 2

Providers == {"p1", "p2"}
Keys == {"k1"}
Vals == {"0", "{a}", "{b}"}
TtlArgs == {<<>>, <<600>>}

NoEntry == [v |-> "undefined", t |-> 0]

\* new NodeCache({ stdTTL: ttl || 300 })
StdTTL(p) == OrDefault(ttlArg[p], DEFAULT_STD_TTL)

\* NodeCache.get: an entry past its time is not returned (t = 0: no expiry)
MemLive(e) == e # NoEntry /\ (e.t = 0 \/ e.t >= now)
MemGet(p, key) == IF MemLive(mem[p][key]) THEN mem[p][key].v ELSE "undefined"
\* NodeCache.get deletes an entry it finds expired
MemAfterGet(p, key) ==
    IF MemLive(mem[p][key]) THEN mem ELSE [mem EXCEPT ![p][key] = NoEntry]
\* NodeCache.set(key, val): the entry lives stdTTL seconds
MemSet(m, p, key, val) ==
    [m EXCEPT ![p][key] = [v |-> val, t |-> now + StdTTL(p) * 1000]]

\* cacheManager.get: the value while the entry's expiry lies in the future;
\* an expired entry is deleted
FsLive(e) == e # NoEntry /\ (e.t = 0 \/ e.t > now)
FsGet(key) == IF FsLive(fs[key]) THEN fs[key].v ELSE "undefined"
FsAfterGet(key) == IF FsLive(fs[key]) THEN fs ELSE [fs EXCEPT ![key] = NoEntry]

\* (fault variant: the file entry's expiry follows the in-memory TTL)
FsExpires_FromTtl(p, t) == t + StdTTL(p) * 1000
\* writeFsCache: expires: Date.now() + 5 * 60 * 1000
FsExpires(p, t) == t + FS_EXPIRY_MS

otherThanCache == <<fetchVars, swapVars, goatVars, xmtpVars>>

\* A call of readFromCache or writeToCache: its arguments (p: the provider it is
\* called on), its position, its local variables val and fsVal, the expiry
\* writeFsCache computed, its result, and whether another call on the same key
\* was in flight at any time during it.
NewCall(op, p, key, data) ==
    [op |-> op, p |-> p, key |-> key, data |-> data, pc |-> "fsPending",
     val |-> "undefined", fsVal |-> "undefined", expires |-> 0,
     res |-> "undefined",
     overlap |-> \E i \in DOMAIN calls : calls[i].key = key]
NoCall == [NewCall("none", "p1", "k1", "undefined") EXCEPT !.pc = "none", !.overlap = FALSE]

MarkOverlap(cs, key) ==
    [i \in DOMAIN cs |->
        IF cs[i].key = key THEN [cs[i] EXCEPT !.overlap = TRUE] ELSE cs[i]]
Remove(cs, i) == [j \in 1 .. Len(cs) - 1 |-> IF j < i THEN cs[j] ELSE cs[j + 1]]

\* readFromCache up to the await: const val = this.cache.get(key); if (val) return val;
\* otherwise readFsCache(key) is called.
ReadStart(p, key) ==
    /\ started < MaxCalls
    /\ started' = started + 1
    /\ LET val == MemGet(p, key)
           c == [NewCall("read", p, key, "undefined") EXCEPT !.val = val]
       IN  /\ mem' = MemAfterGet(p, key)
           /\ IF Truthy(val)
              THEN /\ last' = [c EXCEPT !.pc = "done", !.res = val, !.overlap = FALSE]
                   /\ calls' = calls
              ELSE /\ calls' = Append(MarkOverlap(calls, key), c)
                   /\ last' = NoCall
    /\ UNCHANGED <<now, fs, ttlArg>>
    /\ UNCHANGED otherThanCache

\* cacheManager.get(path.join(cacheKey, key)) resolves
ReadFsResolve(i) ==
    /\ calls[i].op = "read" /\ calls[i].pc = "fsPending"
    /\ calls' = [calls EXCEPT ![i].fsVal = FsGet(calls[i].key), ![i].pc = "fsResolved"]
    /\ fs' = FsAfterGet(calls[i].key)
    /\ last' = NoCall
    /\ UNCHANGED <<now, mem, ttlArg, started>>
    /\ UNCHANGED otherThanCache

\* readFromCache after the await: if (fsVal) this.cache.set(key, fsVal); return fsVal;
ReadResume(i) ==
    /\ calls[i].op = "read" /\ calls[i].pc = "fsResolved"
    /\ mem' = IF Truthy(calls[i].fsVal)
              THEN MemSet(mem, calls[i].p, calls[i].key, calls[i].fsVal)
              ELSE mem
    /\ last' = [calls[i] EXCEPT !.res = calls[i].fsVal, !.pc = "done"]
    /\ calls' = Remove(calls, i)
    /\ UNCHANGED <<now, fs, ttlArg, started>>
    /\ UNCHANGED otherThanCache

\* writeToCache up to the await: this.cache.set(key, val); writeFsCache(key, val)
\* is called, which computes the expiry and calls cacheManager.set.
WriteStart(p, key, val) ==
    /\ started < MaxCalls
    /\ started' = started + 1
    /\ mem' = MemSet(mem, p, key, val)
    /\ calls' = Append(MarkOverlap(calls, key),
                  [NewCall("write", p, key, val) EXCEPT !.expires = FsExpires(p, now)])
    /\ last' = NoCall
    /\ UNCHANGED <<now, fs, ttlArg>>
    /\ UNCHANGED otherThanCache

\* cacheManager.set stores the entry and resolves; writeToCache, which does
\* nothing after the await, resolves
WriteFsResolve(i) ==
    /\ calls[i].op = "write" /\ calls[i].pc = "fsPending"
    /\ fs' = [fs EXCEPT ![calls[i].key] = [v |-> calls[i].data, t |-> calls[i].expires]]
    /\ last' = [calls[i] EXCEPT !.pc = "done"]
    /\ calls' = Remove(calls, i)
    /\ UNCHANGED <<now, mem, ttlArg, started>>
    /\ UNCHANGED otherThanCache

\* cacheManager.set rejects (the file cannot be written); writeToCache rejects
WriteFsReject(i) ==
    /\ calls[i].op = "write" /\ calls[i].pc = "fsPending"
    /\ last' = [calls[i] EXCEPT !.pc = "rejected"]
    /\ calls' = Remove(calls, i)
    /\ UNCHANGED <<now, fs, mem, ttlArg, started>>
    /\ UNCHANGED otherThanCache

\* time passes
Tick ==
    /\ now < MaxTicks * TickMs
    /\ now' = now + TickMs
    /\ last' = NoCall
    /\ UNCHANGED <<fs, mem, ttlArg, calls, started>>
    /\ UNCHANGED otherThanCache

InitCacheVars ==
    /\ now = 0
    /\ fs = [k \in Keys |-> NoEntry]
    /\ mem = [p \in Providers |-> [k \in Keys |-> NoEntry]]
    /\ calls = <<>>
    /\ last = NoCall
    /\ started = 0

----------------------------------------------------------------------------
(***************************************************************************)
(* BirdeyeProvider: the fetch operations and fetchWithRetry.               *)
(***************************************************************************)
MaxFetches == 2
MaxRetriesGiven == 2

DEFAULT_MAX_RETRIES == 3
RETRY_DELAY_MS == 2000

API_BASE_URL == "https://public-api.birdeye.so"
Types == {"price", "security", "volume", "portfolio"}
ENDPOINT_MAP == [type \in Types |->
    CASE type = "price" -> "/defi/price?address="
      [] type = "security" -> "/defi/token_security?address="
      [] type = "volume" -> "/defi/v3/token/trade-data/single?address="
      [] type = "portfolio" -> "/v1/wallet/token_list?wallet="]

\* symbols asked for: one of DEFAULT_SUPPORTED_SYMBOLS and one that is not
Symbols == {"SOL", "DOGE"}
DEFAULT_SUPPORTED_SYMBOLS == [s \in {"SOL"} |-> "So11111111111111111111111111111111111111112"]
Addresses == {"So11111111111111111111111111111111111111112", "wallet1"}

\* the maxRetries argument: omitted, or a number
MaxRetriesArgs == {<<>>} \cup {<<n>> : n \in -1 .. MaxRetriesGiven}
\* this.maxRetries = maxRetries || DEFAULT_MAX_RETRIES
MaxRetries == OrDefault(maxRetriesArg, DEFAULT_MAX_RETRIES)

\* what one HTTP attempt can do: fetch rejects; the response is not ok; the
\* response is ok and resp.json() rejects; the response is ok and parses
Outcomes == {"neterr", "httperr", "badjson", "ok"}

getUrlByType(type, address) == <<API_BASE_URL, ENDPOINT_MAP[type], address>>
\* the parsed body the API serves for a url
Body(u) == <<"json", u[2], u[3]>>

\* an error names the attempt it came from (0: none) and its kind
NoErr == [attempt |-> 0, kind |-> ""]
NoResult == [status |-> "none", data |-> <<>>, err |-> NoErr]
Resolved(d) == [status |-> "resolved", data |-> d, err |-> NoErr]
Rejected(e) == [status |-> "rejected", data |-> <<>>, err |-> e]

otherThanGet == <<swapVars, goatVars, xmtpVars>>
otherThanFetch == <<getVars, otherThanGet>>

\* fetchPriceByAddress, fetchTokenSecurityByAddress, fetchTokenTradeDataByAddress,
\* fetchWalletPortfolio: the url is built and fetchWithRetry is entered
\* (let attempts = 0)
FetchByAddress(type, address) ==
    /\ fpc = "idle" /\ Len(fetches) < MaxFetches
    /\ fetches' = Append(fetches, [type |-> type, address |-> address, t |-> now])
    /\ url' = getUrlByType(type, address)
    /\ attempts' = 0
    /\ flog' = <<>>
    /\ fres' = NoResult
    /\ fpc' = "loop"
    /\ UNCHANGED <<maxRetriesArg, reqs, cacheVars, otherThanFetch>>

\* fetchPriceBySymbol, fetchTokenSecurityBySymbol, fetchTokenTradeDataBySymbol:
\* getTokenAddress throws for a symbol the map does not hold
FetchBySymbol(type, symbol) ==
    /\ type # "portfolio"
    /\ IF symbol \in DOMAIN DEFAULT_SUPPORTED_SYMBOLS
       THEN FetchByAddress(type, DEFAULT_SUPPORTED_SYMBOLS[symbol])
       ELSE /\ fpc = "idle" /\ Len(fetches) < MaxFetches
            /\ fres' = Rejected([attempt |-> 0, kind |-> "Unsupported symbol"])
            /\ flog' = <<>>
            /\ attempts' = 0
            /\ UNCHANGED <<maxRetriesArg, fpc, url, reqs, fetches, cacheVars, otherThanFetch>>

\* while (attempts < this.maxRetries): the loop is left and the function ends
\* without a return statement
LoopExit ==
    /\ fpc = "loop" /\ ~(attempts < MaxRetries)
    /\ fres' = Resolved(<<"undefined">>)
    /\ fpc' = "idle"
    /\ UNCHANGED <<maxRetriesArg, url, attempts, flog, reqs, fetches, cacheVars, otherThanFetch>>

\* attempts++; fetch(url, ...) is called
Attempt ==
    /\ fpc = "loop" /\ attempts < MaxRetries
    /\ attempts' = attempts + 1
    /\ reqs' = Append(reqs, [url |-> url, t |-> now])
    /\ fpc' = "fetching"
    /\ UNCHANGED <<maxRetriesArg, url, flog, fres, fetches, cacheVars, otherThanFetch>>

\* the attempt ends with a parsed body: return data
AttemptOk ==
    /\ fpc = "fetching"
    /\ flog' = Append(flog, [ev |-> "attempt", out |-> "ok", ms |-> 0])
    /\ fres' = Resolved(Body(url))
    /\ fpc' = "idle"
    /\ UNCHANGED <<maxRetriesArg, url, attempts, reqs, fetches, cacheVars, otherThanFetch>>

\* the attempt ends in the catch block: after the last attempt the error is
\* thrown, otherwise waitFor(RETRY_DELAY_MS) is called
\* (fault variant: the first attempt's error is the one kept)
ThrownError_First(out) == [attempt |-> 1, kind |-> IF flog = <<>> THEN out ELSE flog[1].out]
\* catch (error) { ... throw error }: the error of the attempt just made
ThrownError(out) == [attempt |-> attempts, kind |-> out]
AttemptFails(out) ==
    /\ fpc = "fetching" /\ out # "ok"
    /\ flog' = Append(flog, [ev |-> "attempt", out |-> out, ms |-> 0])
    /\ IF attempts = MaxRetries
       THEN /\ fres' = Rejected(ThrownError(out))
            /\ fpc' = "idle"
       ELSE /\ fres' = fres
            /\ fpc' = "waiting"
    /\ UNCHANGED <<maxRetriesArg, url, attempts, reqs, fetches, cacheVars, otherThanFetch>>

\* waitFor(ms): the timer fires after ms
\* (fault variant: the delay grows with the attempt number)
WaitMs_Backoff == RETRY_DELAY_MS * attempts
WaitMs == RETRY_DELAY_MS
WaitDone ==
    /\ fpc = "waiting"
    /\ flog' = Append(flog, [ev |-> "wait", out |-> "", ms |-> WaitMs])
    /\ now' = now + WaitMs
    /\ fpc' = "loop"
    /\ UNCHANGED <<maxRetriesArg, url, attempts, fres, reqs, fetches,
                   fs, mem, ttlArg, calls, last, started, otherThanFetch>>

----------------------------------------------------------------------------
(***************************************************************************)
(* birdeyeProvider.get: the provider the host runtime calls.               *)
(***************************************************************************)
MaxGets == 2

\* what runtime.getSetting("BIRDEYE_WALLET_ADDR") may answer
WalletSettings == {"undefined", "", "wallet1", "wallet2"}

\* what get settles to: a JavaScript value with its typeof, or a rejection
GetString(parts) == [settled |-> "resolved", type |-> "string", v |-> parts]
GetRejected(e) == [settled |-> "rejected", type |-> "object", v |-> <<e.kind>>]
NO_WALLET_TEXT == "Birdeye provider initiated with no wallet found"
UNABLE_TEXT == "Unable to fetch token information. Please try again later."

\* `${portfolio}`: the text a template literal makes of a value
TemplateText(d) == IF d = <<"undefined">> THEN "undefined" ELSE "[object Object]"

\* (fault variant: the catch block throws the error again)
Caught_Rethrow(e) == GetRejected(e)
\* catch (error) { ...; return "Unable to fetch token information. ..." }
Caught(e) == GetString(<<UNABLE_TEXT>>)

GetCall(w, fetch, value) == [walletAddr |-> w, fetch |-> fetch, value |-> value]

\* get is called: a BirdeyeProvider is constructed (no maxRetries argument),
\* the wallet setting is read; without it the call returns, with it
\* fetchWalletPortfolio is called and awaited
GetStart(w) ==
    /\ getpc = "idle" /\ fpc = "idle" /\ Len(gets) < MaxGets
    /\ maxRetriesArg = <<>>
    /\ walletAddr' = w
    /\ IF ~Truthy(w)
       THEN /\ gets' = Append(gets, GetCall(w, "none", GetString(<<NO_WALLET_TEXT>>)))
            /\ UNCHANGED <<getpc, fpc, url, attempts, flog, fres, fetches>>
       ELSE /\ fetches' = Append(fetches, [type |-> "portfolio", address |-> w, t |-> now])
            /\ url' = getUrlByType("portfolio", w)
            /\ attempts' = 0
            /\ flog' = <<>>
            /\ fres' = NoResult
            /\ fpc' = "loop"
            /\ getpc' = "awaiting"
            /\ gets' = gets
    /\ UNCHANGED <<maxRetriesArg, reqs, cacheVars, otherThanGet>>

\* the constructor or runtime.getSetting throws inside the try block
GetThrowsEarly ==
    /\ getpc = "idle" /\ fpc = "idle" /\ Len(gets) < MaxGets
    /\ gets' = Append(gets, GetCall("undefined", "none",
                                    Caught([attempt |-> 0, kind |-> "getSetting threw"])))
    /\ walletAddr' = "undefined"
    /\ UNCHANGED <<getpc, maxRetriesArg, fpc, url, attempts, flog, fres, reqs, fetches,
                   cacheVars, otherThanGet>>

\* await provider.fetchWalletPortfolio(walletAddr) settles: the text is built
\* from the portfolio, or the catch block answers
GetResume ==
    /\ getpc = "awaiting" /\ fpc = "idle" /\ fres.status # "none"
    /\ gets' = Append(gets, GetCall(walletAddr, fres.status,
            IF fres.status = "resolved"
            THEN GetString(<<"Birdeye wallet addr: ", walletAddr, ", portfolio: ",
                             TemplateText(fres.data)>>)
            ELSE Caught(fres.err)))
    /\ getpc' = "idle"
    /\ UNCHANGED <<walletAddr, maxRetriesArg, fpc, url, attempts, flog, fres, reqs, fetches,
                   cacheVars, otherThanGet>>

----------------------------------------------------------------------------
(***************************************************************************)
(* The SWAP_TOKEN action handler (yakSwap.ts).                             *)
(***************************************************************************)
\* A JavaScript value of the generated content: its typeof and its text.
Str(x) == [type |-> "string", v |-> x]
Num(x) == [type |-> "number", v |-> x]
Null == [type |-> "object", v |-> "null"]
JsTruthy(x) == x.v \notin {"null", "undefined", "0", "", "NaN", "false"}

ZERO_ADDRESS == "0x0000000000000000000000000000000000000000"
yakRouterAddress == "0xC4729E56b831d74bBc18797e0e17A295fA77488c"
WAVAX == "0xB31f66AA3C1e785363F0875A1B74E27b85FD66c7"
USDC == "0xB97EF9Ef8734C71904D8002F8b6Bc66Dd9c48a6E"

\* what generateObject may return
Contents ==
    [fromTokenAddress : {Str(ZERO_ADDRESS), Str(WAVAX), Null},
     toTokenAddress : {Str(ZERO_ADDRESS), Str(USDC), Null},
     recipient : {Null, Str("0xDcEDF06Fd33E1D7b6eb4b309f779a0e9D3172e44"), Num("5"), Num("0")},
     amount : {Str("10"), Num("10"), Null}]
NullContent == [fromTokenAddress |-> Null, toTokenAddress |-> Null,
                recipient |-> Null, amount |-> Null]

\* (fault variant: the recipient is not looked at)
isSwapContent_NoRecipient(c) ==
    /\ c.fromTokenAddress.type = "string"
    /\ c.toTokenAddress.type = "string"
    /\ (c.amount.type = "string" \/ c.amount.type = "number")
isSwapContent(c) ==
    /\ c.fromTokenAddress.type = "string"
    /\ c.toTokenAddress.type = "string"
    /\ (c.recipient.type = "string" \/ ~JsTruthy(c.recipient))
    /\ (c.amount.type = "string" \/ c.amount.type = "number")

\* what the chain functions may answer
ApproveResults == {"0xAPPROVE_TX", "undefined"}
SwapResults == {"0xSWAP_TX", "undefined"}
ReceiptStatuses == {"success", "reverted"}
Quote(c) == <<"quote", c.fromTokenAddress.v, c.toTokenAddress.v, c.amount.v>>

Call(fn, args) == [ev |-> "call", fn |-> fn, args |-> args, result |-> <<>>]
Resolve(fn, result) == [ev |-> "resolved", fn |-> fn, args |-> <<>>, result |-> result]
\* the chain call awaited, "none" when there is none
Pending == IF chain # <<>> /\ chain[Len(chain)].ev = "call"
           THEN chain[Len(chain)].fn ELSE "none"

\* callback?.({ text, content }): nothing happens when no callback was passed
Callback(log, text, error) ==
    IF hasCallback THEN Append(log, [text |-> text, error |-> error]) ELSE log

\* (fault variant: the receipt's status is not looked at)
ReceiptSucceeded_Any(status) == TRUE
\* receipt.status === "success"
ReceiptSucceeded(status) == status = "success"

otherThanSwap == <<cacheVars, fetchVars, goatVars, xmtpVars>>

\* (fault variant: only the fromTokenAddress is compared with the zero address)
IsNativeAvax_FromOnly(c) == c.fromTokenAddress.v = ZERO_ADDRESS
\* the two native AVAX branches: swapping from, or to, the zero address
IsNativeAvax(c) ==
    \/ c.fromTokenAddress.v = ZERO_ADDRESS
    \/ c.toTokenAddress.v = ZERO_ADDRESS

\* (fault variant: the fall-through returns false)
SomethingWentWrong_ReturnsFalse(log) ==
    /\ cbs' = Callback(log, "something went wrong", "Swap failed")
    /\ sret' = "false"
    /\ spc' = "done"
\* the fall-through at the end of the handler
SomethingWentWrong(log) ==
    /\ cbs' = Callback(log, "something went wrong", "Swap failed")
    /\ sret' = "true"
    /\ spc' = "done"

\* the content is generated and validated; valid content leads to getQuote
Generate ==
    /\ spc = "start"
    /\ IF ~isSwapContent(content)
       THEN /\ cbs' = Callback(cbs, "Unable to process swap request. Invalid content provided.",
                               "Invalid swap content")
            /\ sret' = "false"
            /\ spc' = "done"
            /\ chain' = chain
       ELSE /\ chain' = Append(chain, Call("getQuote",
                   <<content.fromTokenAddress.v, content.toTokenAddress.v, content.amount.v>>))
            /\ spc' = "quote"
            /\ UNCHANGED <<cbs, sret>>
    /\ UNCHANGED <<content, hasCallback, tx, swapTx, receipt, otherThanSwap>>

\* getQuote resolves: the native AVAX branches fall through, otherwise approve
\* is called
QuoteResolves ==
    /\ spc = "quote"
    /\ LET resolved == Append(chain, Resolve("getQuote", Quote(content)))
       IN  IF IsNativeAvax(content)
           THEN /\ chain' = resolved
                /\ SomethingWentWrong(cbs)
           ELSE /\ chain' = Append(resolved, Call("approve",
                       <<content.fromTokenAddress.v, yakRouterAddress, content.amount.v>>))
                /\ spc' = "approve"
                /\ UNCHANGED <<cbs, sret>>
    /\ UNCHANGED <<content, hasCallback, tx, swapTx, receipt, otherThanSwap>>

\* approve resolves: "approving token..." is reported; with a transaction its
\* receipt is asked for, without one the handler falls through
ApproveResolves(result) ==
    /\ spc = "approve"
    /\ tx' = result
    /\ LET resolved == Append(chain, Resolve("approve", <<result>>))
           log == Callback(cbs, "approving token...", "")
       IN  IF Truthy(result)
           THEN /\ chain' = Append(resolved, Call("getTxReceipt", <<result>>))
                /\ cbs' = log
                /\ spc' = "approveReceipt"
                /\ sret' = sret
           ELSE /\ chain' = resolved
                /\ SomethingWentWrong(log)
    /\ UNCHANGED <<content, hasCallback, swapTx, receipt, otherThanSwap>>

\* the approval's receipt resolves: on success swap(quote) is called, otherwise
\* "approve failed" is reported
ApproveReceiptResolves(status) ==
    /\ spc = "approveReceipt"
    /\ receipt' = status
    /\ LET resolved == Append(chain, Resolve("getTxReceipt", <<status>>))
       IN  IF ReceiptSucceeded(status)
           THEN /\ cbs' = Callback(cbs, "token approved, swapping...", "")
                /\ chain' = Append(resolved, Call("swap", Quote(content)))
                /\ spc' = "swap"
                /\ sret' = sret
           ELSE /\ cbs' = Callback(cbs, "approve failed", "Approve failed")
                /\ chain' = resolved
                /\ sret' = "true"
                /\ spc' = "done"
    /\ UNCHANGED <<content, hasCallback, tx, swapTx, otherThanSwap>>

\* swap resolves: with a transaction its receipt is asked for, without one the
\* handler falls through
SwapResolves(result) ==
    /\ spc = "swap"
    /\ swapTx' = result
    /\ LET resolved == Append(chain, Resolve("swap", <<result>>))
       IN  IF Truthy(result)
           THEN /\ chain' = Append(resolved, Call("getTxReceipt", <<result>>))
                /\ spc' = "swapReceipt"
                /\ UNCHANGED <<cbs, sret>>
           ELSE /\ chain' = resolved
                /\ SomethingWentWrong(cbs)
    /\ UNCHANGED <<content, hasCallback, tx, receipt, otherThanSwap>>

\* the swap's receipt resolves: "swap successful" or "swap failed"
SwapReceiptResolves(status) ==
    /\ spc = "swapReceipt"
    /\ receipt' = status
    /\ chain' = Append(chain, Resolve("getTxReceipt", <<status>>))
    /\ cbs' = IF ReceiptSucceeded(status)
              THEN Callback(cbs, "swap successful", "")
              ELSE Callback(cbs, "swap failed", "Swap failed")
    /\ sret' = "true"
    /\ spc' = "done"
    /\ UNCHANGED <<content, hasCallback, tx, swapTx, otherThanSwap>>

\* the awaited chain call rejects: nothing catches it, the handler rejects
ChainCallThrows ==
    /\ Pending # "none"
    /\ chain' = Append(chain, [ev |-> "threw", fn |-> Pending, args |-> <<>>, result |-> <<>>])
    /\ sret' = "threw"
    /\ spc' = "done"
    /\ UNCHANGED <<content, hasCallback, tx, swapTx, receipt, cbs, otherThanSwap>>

----------------------------------------------------------------------------
(***************************************************************************)
(* createGoatPlugin (plugin-goat/src/index.ts).                            *)
(***************************************************************************)
MaxItems == 2
MaxTweets == 1

\* REQUIRED_SETTINGS, in the order Object.entries lists them
REQUIRED_SETTINGS ==
    << <<"WALLET_PUBLIC_KEY", "Solana wallet public key">>,
       <<"DEXSCREENER_WATCHLIST_ID", "DexScreener watchlist ID">>,
       <<"COINGECKO_API_KEY", "CoinGecko API key">> >>
RequiredKeys == {REQUIRED_SETTINGS[i][1] : i \in DOMAIN REQUIRED_SETTINGS}
TwitterKeys == {"TWITTER_ENABLED", "TWITTER_USERNAME", "TWITTER_DRY_RUN"}
SettingKeys == RequiredKeys \cup TwitterKeys

\* what getSetting may answer: "undefined" when the setting is not there
SettingValues(k) ==
    CASE k \in RequiredKeys -> {"undefined", "", "set"}
      [] k = "TWITTER_ENABLED" -> {"undefined", "true", "TRUE"}
      [] k = "TWITTER_USERNAME" -> {"undefined", "", "memewave"}
      [] k = "TWITTER_DRY_RUN" -> {"undefined", "true"}

NoError == [kind |-> "", parts |-> <<>>]
NoTwitterService == [client |-> "undefined", dryRun |-> FALSE]
Absent == [present |-> FALSE, items |-> <<>>]
Present(items) == [present |-> TRUE, items |-> items]
NoPlugin == [actions |-> <<>>, providers |-> <<>>, evaluators |-> <<>>]
NoInputs == [customActions |-> <<>>,
             solana |-> [actions |-> Absent, providers |-> Absent, evaluators |-> Absent]]

\* lists of at most MaxItems elements of pool
Lists(pool) == UNION {[1 .. n -> pool] : n \in 0 .. MaxItems}
\* a field of the imported solanaPlugin: absent, or a list
Fields(pool) == {Absent} \cup {Present(l) : l \in Lists(pool)}
SolanaPlugins ==
    [actions : Fields({"solanaActionA", "solanaActionB"}),
     providers : {Absent, Present(<<>>), Present(<<"solanaProvider">>)},
     evaluators : {Absent, Present(<<>>), Present(<<"solanaEvaluator">>)}]
CustomActionLists == Lists({"goatActionA", "goatActionB"})

\* (fault variant: validation stops at the first missing setting)
MissingOf_FirstOnly(get) ==
    LET all == SelectSeq(REQUIRED_SETTINGS, LAMBDA e : ~Truthy(get[e[1]]))
    IN  IF all = <<>> THEN <<>> ELSE <<all[1]>>
\* for (const [key, description] of Object.entries(REQUIRED_SETTINGS))
\*     if (!getSetting(key)) missingSettings.push(`${key} (${description})`)
MissingOf(get) == SelectSeq(REQUIRED_SETTINGS, LAMBDA e : ~Truthy(get[e[1]]))

\* (fault variant: any non-empty TWITTER_ENABLED enables the service)
TwitterEnabled_Truthy(get) == Truthy(get["TWITTER_ENABLED"])
\* enabled: getSetting("TWITTER_ENABLED") === "true"
TwitterEnabled(get) == get["TWITTER_ENABLED"] = "true"

\* TwitterConfigSchema.parse: username is z.string().min(1)
TwitterConfigParses(get) == get["TWITTER_USERNAME"] \notin {"undefined", ""}

\* (fault variant: the Solana plugin's entries come first)
Merge_SolanaFirst(own, field) == (IF field.present THEN field.items ELSE <<>>) \o own
\* [...own, ...(field || [])]
Merge(own, field) == own \o (IF field.present THEN field.items ELSE <<>>)

otherThanGoat == <<cacheVars, fetchVars, swapVars, xmtpVars>>

\* the required settings are validated: an error naming the missing ones is thrown
Validate ==
    /\ gpc = "start"
    /\ LET missingSettings == MissingOf(settings)
       IN  IF Len(missingSettings) > 0
           THEN /\ gerr' = [kind |-> "Missing required settings", parts |-> missingSettings]
                /\ gpc' = "threw"
           ELSE /\ gerr' = gerr
                /\ gpc' = "solana"
    /\ UNCHANGED <<settings, hasRuntime, effects, twitterService, plugin, inputs,
                   tweets, otherThanGoat>>

\* new Connection(...), new PublicKey(...) and the wallet provider; either
\* constructor may throw, which is rethrown as "Solana initialization failed"
InitSolana(outcome) ==
    /\ gpc = "solana"
    /\ effects' = Append(effects, "new Connection")
    /\ IF outcome = "ok"
       THEN /\ gpc' = "twitter"
            /\ gerr' = gerr
       ELSE /\ gpc' = "threw"
            /\ gerr' = [kind |-> "Solana initialization failed", parts |-> <<outcome>>]
    /\ UNCHANGED <<settings, hasRuntime, twitterService, plugin, inputs, tweets,
                   otherThanGoat>>

\* the Twitter configuration is parsed; when it is enabled and a runtime was
\* passed, TwitterClientInterface.start(runtime) is called; a parse error is
\* caught and logged
ConfigureTwitter ==
    /\ gpc = "twitter"
    /\ IF TwitterConfigParses(settings) /\ TwitterEnabled(settings) /\ hasRuntime
       THEN /\ effects' = Append(effects, "TwitterClientInterface.start")
            /\ gpc' = "twitterStarting"
       ELSE /\ effects' = effects
            /\ gpc' = "actions"
    /\ UNCHANGED <<settings, hasRuntime, gerr, twitterService, plugin, inputs,
                   tweets, otherThanGoat>>

\* TwitterClientInterface.start resolves: the service is built
TwitterStarts ==
    /\ gpc = "twitterStarting"
    /\ twitterService' = [client |-> "twitterClient",
                          dryRun |-> settings["TWITTER_DRY_RUN"] = "true"]
    /\ gpc' = "actions"
    /\ UNCHANGED <<settings, hasRuntime, gerr, effects, plugin, inputs, tweets,
                   otherThanGoat>>

\* TwitterClientInterface.start rejects: the error is caught and logged
TwitterStartFails ==
    /\ gpc = "twitterStarting"
    /\ gpc' = "actions"
    /\ UNCHANGED <<settings, hasRuntime, gerr, effects, twitterService, plugin,
                   inputs, tweets, otherThanGoat>>

\* getOnChainActions({ wallet, plugins, dexscreener, tweetTrade }) is called
CallGetOnChainActions ==
    /\ gpc = "actions"
    /\ effects' = Append(effects, "getOnChainActions")
    /\ gpc' = "actionsPending"
    /\ UNCHANGED <<settings, hasRuntime, gerr, twitterService, plugin, inputs,
                   tweets, otherThanGoat>>

\* getOnChainActions resolves: the plugin is assembled and returned
OnChainActionsResolve(customActions, solana) ==
    /\ gpc = "actionsPending"
    /\ inputs' = [customActions |-> customActions, solana |-> solana]
    /\ plugin' = [evaluators |-> Merge(<<"trustEvaluator">>, solana.evaluators),
                  providers |-> Merge(<<"walletProvider", "trustScoreProvider">>,
                                      solana.providers),
                  actions |-> Merge(customActions, solana.actions)]
    /\ gpc' = "returned"
    /\ UNCHANGED <<settings, hasRuntime, gerr, effects, twitterService, tweets,
                   otherThanGoat>>

\* getOnChainActions rejects: rethrown as "Plugin initialization failed"
OnChainActionsReject ==
    /\ gpc = "actionsPending"
    /\ gerr' = [kind |-> "Plugin initialization failed", parts |-> <<>>]
    /\ gpc' = "threw"
    /\ UNCHANGED <<settings, hasRuntime, effects, twitterService, plugin, inputs,
                   tweets, otherThanGoat>>

\* an on-chain action calls the tweetTrade function it was handed: without a
\* service nothing happens; postTradeAlert logs in dry-run mode, and catches a
\* failing sendTweet
TweetTrade(sendTweet) ==
    /\ gpc \in {"actionsPending", "returned"}
    /\ Len(tweets) < MaxTweets
    /\ tweets' = Append(tweets,
          IF twitterService.client = "undefined" THEN "skipped"
          ELSE IF twitterService.dryRun THEN "dry run"
          ELSE sendTweet)
    /\ UNCHANGED <<settings, hasRuntime, gpc, gerr, effects, twitterService, plugin,
                   inputs, otherThanGoat>>

----------------------------------------------------------------------------
(***************************************************************************)
(* startXmtpClient (the XMTP bootstrap).                                   *)
(***************************************************************************)
MaxMsgs == 3

RESPONSE == "Your AI response here"
Messages == {"gm", "swap 1 AVAX"}
Users == {"alice", "bob"}

otherThanXmtp == <<cacheVars, fetchVars, swapVars, goatVars>>

\* createClient(onMessage, { encryptionKey }) is called; the binding xmtp is
\* initialized only when the promise it returns has resolved
CreateClient ==
    /\ xpc = "start"
    /\ xpc' = "creating"
    /\ UNCHANGED <<xmtp, msgs, sends, otherThanXmtp>>

\* the promise resolves: const xmtp is initialized, "XMTP client started"
ClientCreated ==
    /\ xpc = "creating"
    /\ xmtp' = "client"
    /\ xpc' = "started"
    /\ UNCHANGED <<msgs, sends, otherThanXmtp>>

\* the promise rejects: startXmtpClient rejects
CreateClientFails ==
    /\ xpc = "creating"
    /\ xpc' = "failed"
    /\ UNCHANGED <<xmtp, msgs, sends, otherThanXmtp>>

\* const response = "Your AI response here"
Reply(message, user) == RESPONSE

\* the client delivers a message to onMessage: reading the binding xmtp before
\* it is initialized throws (a ReferenceError; a TypeError in a build that
\* compiles const to var), otherwise xmtp.send(response) is called, and
\* resolves or rejects
OnMessage(message, user, sendOutcome) ==
    /\ xpc \in {"creating", "started"}
    /\ Len(msgs) < MaxMsgs
    /\ IF xmtp = "uninitialized"
       THEN /\ msgs' = Append(msgs, [message |-> message, user |-> user,
                                     outcome |-> "threw before send"])
            /\ sends' = sends
       ELSE /\ msgs' = Append(msgs, [message |-> message, user |-> user,
                                     outcome |-> sendOutcome])
            /\ sends' = Append(sends, Reply(message, user))
    /\ UNCHANGED <<xpc, xmtp, otherThanXmtp>>

\* ---- the other components at rest (filled in below each component)
InitFetchVars ==
    /\ fpc = "idle" /\ url = <<>> /\ attempts = 0
    /\ flog = <<>> /\ fres = NoResult /\ reqs = <<>> /\ fetches = <<>>
IdleGet == walletAddr = "undefined" /\ getpc = "idle" /\ gets = <<>>
IdleFetch == InitFetchVars /\ IdleGet /\ maxRetriesArg = <<>>
InitSwapVars ==
    /\ spc = "start" /\ chain = <<>>
    /\ tx = "undefined" /\ swapTx = "undefined"
    /\ receipt = "undefined" /\ cbs = <<>> /\ sret = "none"
IdleSwap == InitSwapVars /\ content = NullContent /\ hasCallback = FALSE
InitGoatVars ==
    /\ gpc = "start" /\ gerr = NoError /\ effects = <<>>
    /\ twitterService = NoTwitterService /\ plugin = NoPlugin
    /\ inputs = NoInputs /\ tweets = <<>>
IdleGoat ==
    /\ InitGoatVars
    /\ settings = [k \in SettingKeys |-> "undefined"]
    /\ hasRuntime = FALSE
IdleXmtp ==
    /\ xpc = "start" /\ xmtp = "uninitialized" /\ msgs = <<>> /\ sends = <<>>
IdleCache == InitCacheVars /\ ttlArg = [p \in Providers |-> <<>>]

InitCache ==
    /\ InitCacheVars
    /\ ttlArg \in {f \in [Providers -> TtlArgs] : f["p2"] = <<>>}
    /\ IdleFetch /\ IdleSwap /\ IdleGoat /\ IdleXmtp

NextCache ==
    \/ \E p \in Providers, key \in Keys : ReadStart(p, key)
    \/ \E i \in DOMAIN calls : ReadFsResolve(i)
    \/ \E i \in DOMAIN calls : ReadResume(i)
    \/ \E p \in Providers, key \in Keys, val \in Vals : WriteStart(p, key, val)
    \/ \E i \in DOMAIN calls : WriteFsResolve(i)
    \/ \E i \in DOMAIN calls : WriteFsReject(i)
    \/ Tick

SpecCache == InitCache /\ [][NextCache]_vars

InitFetch ==
    /\ InitFetchVars /\ IdleGet
    /\ maxRetriesArg \in MaxRetriesArgs
    /\ IdleCache /\ IdleSwap /\ IdleGoat /\ IdleXmtp

NextFetch ==
    \/ \E type \in Types, address \in Addresses : FetchByAddress(type, address)
    \/ \E type \in Types, symbol \in Symbols : FetchBySymbol(type, symbol)
    \/ LoopExit
    \/ Attempt
    \/ AttemptOk
    \/ \E out \in Outcomes : AttemptFails(out)
    \/ WaitDone

SpecFetch == InitFetch /\ [][NextFetch]_vars

\* birdeyeProvider.get constructs its provider without a maxRetries argument;
\* the while loop of fetchWithRetry is then never left by its condition
InitGet == IdleFetch /\ IdleCache /\ IdleSwap /\ IdleGoat /\ IdleXmtp

NextGet ==
    \/ \E w \in WalletSettings : GetStart(w)
    \/ GetThrowsEarly
    \/ Attempt
    \/ AttemptOk
    \/ \E out \in Outcomes : AttemptFails(out)
    \/ WaitDone
    \/ GetResume

SpecGet == InitGet /\ [][NextGet]_vars

InitSwap ==
    /\ InitSwapVars
    /\ content \in Contents
    /\ hasCallback \in BOOLEAN
    /\ IdleCache /\ IdleFetch /\ IdleGoat /\ IdleXmtp

NextSwap ==
    \/ Generate
    \/ QuoteResolves
    \/ \E result \in ApproveResults : ApproveResolves(result)
    \/ \E status \in ReceiptStatuses : ApproveReceiptResolves(status)
    \/ \E result \in SwapResults : SwapResolves(result)
    \/ \E status \in ReceiptStatuses : SwapReceiptResolves(status)
    \/ ChainCallThrows

SpecSwap == InitSwap /\ [][NextSwap]_vars

InitGoat ==
    /\ InitGoatVars
    /\ settings \in {f \in [SettingKeys -> {"undefined", "", "set", "true", "TRUE", "memewave"}] :
                        \A k \in SettingKeys : f[k] \in SettingValues(k)}
    /\ hasRuntime \in BOOLEAN
    /\ IdleCache /\ IdleFetch /\ IdleSwap /\ IdleXmtp

NextGoat ==
    \/ Validate
    \/ \E outcome \in {"ok", "Connection throws", "PublicKey throws"} : InitSolana(outcome)
    \/ ConfigureTwitter
    \/ TwitterStarts
    \/ TwitterStartFails
    \/ CallGetOnChainActions
    \/ \E customActions \in CustomActionLists, solana \in SolanaPlugins :
            OnChainActionsResolve(customActions, solana)
    \/ OnChainActionsReject
    \/ \E sendTweet \in {"posted", "sendTweet failed"} : TweetTrade(sendTweet)

SpecGoat == InitGoat /\ [][NextGoat]_vars

InitXmtp == IdleXmtp /\ IdleCache /\ IdleFetch /\ IdleSwap /\ IdleGoat

NextXmtp ==
    \/ CreateClient
    \/ ClientCreated
    \/ CreateClientFails
    \/ \E message \in Messages, user \in Users, sendOutcome \in {"sent", "send rejected"} :
            OnMessage(message, user, sendOutcome)

SpecXmtp == InitXmtp /\ [][NextXmtp]_vars

----------------------------------------------------------------------------
(***************************************************************************)
(* Claims about the cache (SpecCache).                                     *)
(***************************************************************************)

\* C2 (as stated): readFromCache(key) is read-through for every key and every
\* state of the tiers: a value held by the in-memory cache is returned and the
\* file cache is not consulted (no read call with a memory value is ever waiting
\* on the file cache); otherwise a value held by the file cache is returned and
\* stored in the in-memory cache under the key; otherwise the result is null.
C2_ReadThroughEveryValue ==
    /\ \A i \in DOMAIN calls : calls[i].op = "read" => calls[i].val = "undefined"
    /\ (last.op = "read" /\ last.val # "undefined") => last.res = last.val
    /\ (last.op = "read" /\ last.val = "undefined" /\ last.fsVal # "undefined") =>
            /\ last.res = last.fsVal
            /\ mem[last.p][last.key].v = last.fsVal
    /\ (last.op = "read" /\ last.val = "undefined" /\ last.fsVal = "undefined") =>
            last.res = "undefined"

\* C3 (as stated): writeToCache(key, val) writes both tiers simultaneously: in
\* no state does one tier hold the new value of a call while the other does
\* not, and when the call completes both tiers hold val for key, the file entry
\* with the expiry the call computed.
C3_NoStateBetweenTiers ==
    /\ \A i \in DOMAIN calls : calls[i].op = "write" =>
          ((mem[calls[i].p][calls[i].key].v = calls[i].data)
              <=> (fs[calls[i].key].v = calls[i].data))
    /\ (last.op = "write" /\ last.pc = "done") =>
          /\ mem[last.p][last.key].v = last.data
          /\ fs[last.key] = [v |-> last.data, t |-> last.expires]

\* C3 (amended): writeToCache(key, val) writes the in-memory cache first, at the
\* call (the entry living the in-memory TTL), and computes at the call the file
\* entry's expiry, call time + 5 minutes, whatever the in-memory TTL; when the
\* call resolves, the file cache holds val for key with that expiry; and if no
\* other cache call on the key was in flight during the call, the in-memory
\* cache holds val for key too (unless its TTL has elapsed meanwhile).
C3_WriteThroughInTwoSteps ==
    [][ /\ (started' = started + 1 /\ Len(calls') = Len(calls) + 1
                /\ calls'[Len(calls')].op = "write") =>
            LET c == calls'[Len(calls')]
            IN  /\ c.expires = now + FS_EXPIRY_MS
                /\ mem'[c.p][c.key] = [v |-> c.data, t |-> now + StdTTL(c.p) * 1000]
                /\ fs' = fs
        /\ (Len(calls') = Len(calls) - 1 /\ last'.op = "write" /\ last'.pc = "done") =>
            /\ fs'[last'.key] = [v |-> last'.data, t |-> last'.expires]
            /\ ~last'.overlap =>
                  \/ mem'[last'.p][last'.key].v = last'.data
                  \/ now' > last'.expires - FS_EXPIRY_MS + StdTTL(last'.p) * 1000
      ]_vars

\* C3 witness: a writeToCache call on a provider with a non-default TTL has
\* resolved with no other call in flight, and the file holds its value.
C3_Witness ==
    /\ last.op = "write" /\ last.pc = "done" /\ ~last.overlap
    /\ ttlArg[last.p] = <<600>>
    /\ fs[last.key] = [v |-> last.data, t |-> last.expires]
    /\ mem[last.p][last.key].t # fs[last.key].t

\* the time at which the in-memory entry of provider p for key was set: by the
\* writeToCache that stored the value, or later, by a read that found the
\* value in the file cache
MemSetAt(p, key) == mem[p][key].t - StdTTL(p) * 1000

\* C13 (as stated): readFromCache(key) does not return a value later than 5
\* minutes after the writeToCache that stored it, including when the value was
\* re-populated into the in-memory cache from the file cache by an earlier
\* read: a read answered by the in-memory cache happens at most 5 minutes
\* after the entry was set (the write that stored the value is no later than
\* that).
C13_NeverServedPastFileExpiry ==
    (last.op = "read" /\ last.pc = "done" /\ Truthy(last.val)) =>
        /\ last.res = last.val
        /\ now <= MemSetAt(last.p, last.key) + FS_EXPIRY_MS

NoWriteInFlight == \A i \in DOMAIN calls : calls[i].op # "write"

\* C14 (as stated): whenever no writeToCache call is in flight, the two cache
\* tiers agree: every key that is present in both an in-memory cache (of any
\* provider instance sharing the cacheManager) and the file-backed cache has
\* the same value in both.
C14_TiersAgreeWhenQuiet ==
    NoWriteInFlight =>
        \A p \in Providers, key \in Keys :
            (MemLive(mem[p][key]) /\ FsLive(fs[key])) => mem[p][key].v = fs[key].v

(***************************************************************************)
(* Claims about the fetch operations and fetchWithRetry (SpecFetch).       *)
(***************************************************************************)
RequestsOf(u) == {r \in DOMAIN reqs : reqs[r].url = u}
AttemptsLogged == {i \in DOMAIN flog : flog[i].ev = "attempt"}

\* C1 (as stated): every fetch operation reads the cache before it issues an
\* HTTP request and writes the fetched result back, so two successive fetches
\* of the same kind and address within the expiry window issue at most one
\* HTTP request.
C1_CacheInFrontOfHttp ==
    /\ reqs # <<>> => started > 0
    /\ (fres.status = "resolved" /\ fres.data # <<"undefined">>) =>
            \E k \in Keys : fs[k] # NoEntry
    /\ \A i, j \in DOMAIN fetches :
          (/\ i < j
           /\ fetches[i].type = fetches[j].type
           /\ fetches[i].address = fetches[j].address
           /\ fetches[j].t - fetches[i].t < FS_EXPIRY_MS)
          => Cardinality(RequestsOf(getUrlByType(fetches[i].type, fetches[i].address))) <= 1

\* the maximum the claim names: the constructor's maxRetries, 3 when omitted
ConfiguredMax == IF maxRetriesArg = <<>> THEN 3 ELSE maxRetriesArg[1]
\* the maximum the constructor keeps: 3 also when 0 was given
KeptMax == IF maxRetriesArg \in {<<>>, <<0>>} THEN 3 ELSE maxRetriesArg[1]
AtLeastZero(n) == IF n < 0 THEN 0 ELSE n

\* C4 (as stated): fetchWithRetry makes at most maxRetries attempts (the value
\* given to the constructor, 3 when omitted), stops at the first attempt whose
\* response is ok, and when every attempt fails throws the error of the last
\* attempt after exactly that many attempts.
C4_AtMostGivenMaxRetries ==
    /\ attempts <= AtLeastZero(ConfiguredMax)
    /\ \A i \in DOMAIN flog :
          (flog[i].ev = "attempt" /\ flog[i].out \in {"ok", "badjson"}) => i = Len(flog)
    /\ (fres.status = "rejected" /\ fres.err.kind \in Outcomes) =>
          /\ Cardinality(AttemptsLogged) = ConfiguredMax
          /\ fres.err = [attempt |-> attempts, kind |-> flog[Len(flog)].out]

\* C4 (amended): fetchWithRetry makes at most max attempts, where max is the
\* maxRetries given to the constructor, or 3 when it is omitted or 0 (no
\* attempt when it is negative); it stops at the first attempt whose response
\* is ok and whose body parses (an ok response whose body does not parse is a
\* failed attempt like the others); when every attempt fails it throws the
\* error of the last attempt after exactly max attempts.
C4_AtMostKeptMaxRetries ==
    /\ attempts <= AtLeastZero(KeptMax)
    /\ Cardinality(AttemptsLogged) \in {attempts, attempts - 1}
    /\ \A i \in DOMAIN flog :
          (flog[i].ev = "attempt" /\ flog[i].out = "ok") =>
              /\ i = Len(flog)
              /\ fpc = "idle"
              /\ fres = Resolved(Body(url))
    /\ (fres.status = "rejected" /\ fres.err.kind \in Outcomes) =>
          /\ fpc = "idle"
          /\ Cardinality(AttemptsLogged) = KeptMax
          /\ \A i \in AttemptsLogged : flog[i].out # "ok"
          /\ fres.err = [attempt |-> KeptMax, kind |-> flog[Len(flog)].out]

\* C4 witness: with maxRetries 0 given, three attempts failed in different
\* ways and the third one's error was thrown.
C4_Witness ==
    /\ maxRetriesArg = <<0>>
    /\ fres.status = "rejected" /\ fres.err.attempt = 3
    /\ flog[1].out # fres.err.kind
    /\ \E i \in DOMAIN flog : flog[i].out = "badjson"

\* C5: between two consecutive attempts of fetchWithRetry there is exactly one
\* wait, of RETRY_DELAY_MS whatever the attempt and the error; a wait only
\* follows a failed attempt that is not the last, so none follows a successful
\* attempt or the final failed one.
C5_FixedDelayBetweenAttempts ==
    /\ \A i \in DOMAIN flog :
          /\ (flog[i].ev = "wait") =>
                /\ flog[i].ms = RETRY_DELAY_MS
                /\ i > 1 /\ flog[i - 1].ev = "attempt" /\ flog[i - 1].out # "ok"
          /\ (flog[i].ev = "attempt" /\ i < Len(flog)) =>
                /\ flog[i + 1].ev = "wait"
                /\ i + 1 < Len(flog) \/ fpc \in {"loop", "fetching"}
    /\ (fpc = "idle" /\ flog # <<>>) => flog[Len(flog)].ev = "attempt"
    /\ fpc = "waiting" =>
          /\ attempts < MaxRetries
          /\ flog[Len(flog)].ev = "attempt" /\ flog[Len(flog)].out # "ok"
    /\ (fpc = "fetching" /\ flog # <<>>) => flog[Len(flog)].ev = "wait"

\* C5 witness: a call that failed three times in different ways, with two
\* waits logged, has thrown.
C5_Witness ==
    /\ fpc = "idle" /\ fres.status = "rejected"
    /\ Len(flog) = 5
    /\ flog[2].ev = "wait" /\ flog[4].ev = "wait"
    /\ flog[1].out # flog[3].out

\* C15 (as stated): fetchWithRetry always ends with a definite outcome, for
\* every maxRetries value the constructor accepts (0, negative and omitted
\* included) and every sequence of attempt outcomes: it resolves to the parsed
\* JSON body of a successful response or rejects with an error; it never
\* resolves to undefined without having obtained a successful response.
C15_NeverResolvesUndefined ==
    (fpc = "idle" /\ fres.status = "resolved") =>
        /\ fres.data # <<"undefined">>
        /\ flog # <<>> /\ flog[Len(flog)].out = "ok"
        /\ fres.data = Body(url)

(***************************************************************************)
(* Claims about birdeyeProvider.get (SpecGet).                             *)
(***************************************************************************)
FetchingGets == {i \in DOMAIN gets : gets[i].fetch # "none"}
FailedAttempts == SelectSeq(flog, LAMBDA e : e.ev = "attempt" /\ e.out # "ok")

\* C12: birdeyeProvider.get always resolves to a string and never rejects,
\* whatever the fetch does (a settled fetch always lets the call go on to its
\* end); when the BIRDEYE_WALLET_ADDR setting is absent it issues no HTTP
\* request (requests are issued only on behalf of calls that read a wallet
\* address); when the portfolio fetch fails after all retries it resolves to
\* the fixed "Unable to fetch token information" text.
C12_GetAlwaysResolvesToString ==
    /\ \A i \in DOMAIN gets :
          /\ gets[i].value.settled = "resolved"
          /\ gets[i].value.type = "string"
          /\ ~Truthy(gets[i].walletAddr) => gets[i].fetch = "none"
          /\ gets[i].fetch = "rejected" => gets[i].value.v = <<UNABLE_TEXT>>
    /\ (getpc = "awaiting" /\ fpc = "idle") => fres.status \in {"resolved", "rejected"}
    /\ Len(fetches) = Cardinality(FetchingGets) + (IF getpc = "awaiting" THEN 1 ELSE 0)
    /\ \A j \in DOMAIN reqs : \E k \in DOMAIN fetches :
          /\ Truthy(fetches[k].address)
          /\ reqs[j].url = <<API_BASE_URL, "/v1/wallet/token_list?wallet=", fetches[k].address>>
    /\ Len(reqs) <= 3 * Len(fetches)
    /\ (getpc = "idle" /\ gets # <<>> /\ gets[Len(gets)].fetch = "rejected") =>
          /\ Len(FailedAttempts) = 3
          /\ \A i \in DOMAIN flog : flog[i].out # "ok"

\* C12 witness: one call found no wallet address and issued no request, the
\* next one failed its three attempts and resolved to the fixed text.
C12_Witness ==
    /\ getpc = "idle" /\ Len(gets) = 2
    /\ gets[1].walletAddr = "undefined"
    /\ gets[1].value = GetString(<<NO_WALLET_TEXT>>)
    /\ gets[2].walletAddr = "wallet1" /\ gets[2].fetch = "rejected"
    /\ gets[2].value = GetString(<<UNABLE_TEXT>>)
    /\ Len(reqs) = 3

(***************************************************************************)
(* Claims about the SWAP_TOKEN handler (SpecSwap).                         *)
(***************************************************************************)
CallsMade == SelectSeq(chain, LAMBDA e : e.ev = "call")
FnsCalled == [i \in DOMAIN CallsMade |-> CallsMade[i].fn]
ChainOrder == <<"getQuote", "approve", "getTxReceipt", "swap", "getTxReceipt">>
Reported(text) == \E i \in DOMAIN cbs : cbs[i].text = text

\* C6: the handler calls the chain functions one after another, each only
\* after the one before has resolved, in the order getQuote, approve,
\* getTxReceipt(approve tx), swap, getTxReceipt(swap tx); swap is called only
\* if approve returned a transaction whose receipt has status "success", and
\* "swap successful" is reported only if swap returned a transaction whose
\* receipt has status "success".
C6_ChainCallsInSequence ==
    /\ Len(FnsCalled) <= Len(ChainOrder)
    /\ \A i \in DOMAIN FnsCalled : FnsCalled[i] = ChainOrder[i]
    /\ \A i \in DOMAIN chain :
          (chain[i].ev = "call" /\ i > 1) =>
              /\ chain[i - 1].ev = "resolved"
              /\ i > 2 /\ chain[i - 2].ev = "call" /\ chain[i - 2].fn = chain[i - 1].fn
    /\ \A i \in DOMAIN chain :
          (chain[i].ev = "call" /\ chain[i].fn = "getTxReceipt") =>
              /\ chain[i - 1].fn \in {"approve", "swap"}
              /\ chain[i].args = chain[i - 1].result
              /\ chain[i].args # <<"undefined">>
    /\ \A i \in DOMAIN chain :
          (chain[i].ev = "call" /\ chain[i].fn = "swap") =>
              /\ i = 7
              /\ chain[4].fn = "approve" /\ chain[4].ev = "resolved"
              /\ chain[4].result # <<"undefined">>
              /\ chain[5] = Call("getTxReceipt", chain[4].result)
              /\ chain[6] = Resolve("getTxReceipt", <<"success">>)
    /\ Reported("swap successful") =>
          /\ Len(chain) = 10
          /\ chain[8].fn = "swap" /\ chain[8].ev = "resolved"
          /\ chain[8].result # <<"undefined">>
          /\ chain[9] = Call("getTxReceipt", chain[8].result)
          /\ chain[10] = Resolve("getTxReceipt", <<"success">>)

\* C6 witness: the five calls were made and resolved and the swap was
\* reported successful.
C6_Witness ==
    /\ spc = "done" /\ sret = "true"
    /\ FnsCalled = ChainOrder
    /\ Reported("swap successful")

\* the ways the claim lists for content to be invalid
NotAString(x) == x.type # "string"
InvalidContent ==
    \/ NotAString(content.fromTokenAddress)
    \/ NotAString(content.toTokenAddress)
    \/ content.amount.type \notin {"string", "number"}
    \/ (JsTruthy(content.recipient) /\ NotAString(content.recipient))
InvalidSwapContentReport ==
    [text |-> "Unable to process swap request. Invalid content provided.",
     error |-> "Invalid swap content"]

\* C11: when the generated content fails isSwapContent (fromTokenAddress or
\* toTokenAddress not a string, amount neither string nor number, or a truthy
\* non-string recipient) the handler calls none of getQuote, approve, swap,
\* getTxReceipt, at any time; it ends returning false, having invoked the
\* callback (when one was passed) exactly once, with the error "Invalid swap
\* content"; and a chain function is called only if the content is valid.
C11_InvalidContentCallsNothing ==
    /\ InvalidContent =>
          /\ chain = <<>>
          /\ spc = "done" =>
                /\ sret = "false"
                /\ cbs = IF hasCallback THEN <<InvalidSwapContentReport>> ELSE <<>>
          /\ spc # "done" => (cbs = <<>> /\ sret = "none")
    /\ chain # <<>> => ~InvalidContent

\* C11 witness: the handler has ended on content that is invalid only by its
\* truthy non-string recipient, and the callback got the error.
C11_Witness ==
    /\ spc = "done" /\ sret = "false" /\ hasCallback
    /\ content.recipient = Num("5")
    /\ ~NotAString(content.fromTokenAddress) /\ ~NotAString(content.toTokenAddress)
    /\ content.amount.type = "number"
    /\ cbs = <<InvalidSwapContentReport>>

TerminalTexts == {"swap successful", "swap failed", "approve failed", "something went wrong"}
ProgressTexts == {"approving token...", "token approved, swapping..."}
NoChainCallThrew == \A i \in DOMAIN chain : chain[i].ev # "threw"

\* C16: every run of the handler whose content is valid and whose chain calls
\* do not throw ends returning true and, when a callback was passed, with
\* exactly one terminal callback out of "swap successful", "swap failed",
\* "approve failed" and "something went wrong", issued after all progress
\* callbacks; the handler returns false only for invalid content, so a failed
\* approval or swap is reported through the callback while true is returned.
C16_OneTerminalCallback ==
    /\ (spc = "done" /\ ~InvalidContent /\ NoChainCallThrew) =>
          /\ sret = "true"
          /\ ~hasCallback => cbs = <<>>
          /\ hasCallback =>
                /\ cbs # <<>>
                /\ cbs[Len(cbs)].text \in TerminalTexts
                /\ \A i \in 1..(Len(cbs) - 1) : cbs[i].text \in ProgressTexts
    /\ (spc # "done" /\ ~InvalidContent) =>
          \A i \in DOMAIN cbs : cbs[i].text \in ProgressTexts
    /\ sret = "false" => InvalidContent
    /\ (spc = "done" /\ hasCallback /\ NoChainCallThrew /\ receipt = "reverted") =>
          /\ sret = "true"
          /\ cbs[Len(cbs)].error \in {"Approve failed", "Swap failed"}

\* C16 witness: a run with both progress callbacks whose swap was reverted:
\* "swap failed" is the last callback and true is returned.
C16_Witness ==
    /\ spc = "done" /\ sret = "true" /\ hasCallback
    /\ Len(cbs) = 3
    /\ cbs[1].text = "approving token..."
    /\ cbs[2].text = "token approved, swapping..."
    /\ cbs[3] = [text |-> "swap failed", error |-> "Swap failed"]

ZeroAddressRequest ==
    /\ ~InvalidContent
    /\ \/ content.fromTokenAddress = Str(ZERO_ADDRESS)
       \/ content.toTokenAddress = Str(ZERO_ADDRESS)

Happened(effect) == \E i \in DOMAIN effects : effects[i] = effect
SettingMissing(k) == settings[k] \in {"undefined", ""}

\* C7: createGoatPlugin validates the settings first: if any of
\* WALLET_PUBLIC_KEY, DEXSCREENER_WATCHLIST_ID, COINGECKO_API_KEY is missing or
\* empty it throws an error naming every missing setting, and then no Solana
\* connection is created, no Twitter client is started and getOnChainActions
\* is not called.
C7_ValidatesSettingsFirst ==
    (gpc # "start" /\ \E k \in RequiredKeys : SettingMissing(k)) =>
        /\ gpc = "threw"
        /\ gerr.kind = "Missing required settings"
        /\ \A k \in RequiredKeys :
              SettingMissing(k) <=> \E i \in DOMAIN gerr.parts : gerr.parts[i][1] = k
        /\ effects = <<>>
        /\ twitterService = NoTwitterService
        /\ plugin = NoPlugin

\* C7 witness: two settings are missing (one absent, one empty) and the error
\* was thrown.
C7_Witness ==
    /\ gpc = "threw"
    /\ settings["WALLET_PUBLIC_KEY"] = "set"
    /\ settings["DEXSCREENER_WATCHLIST_ID"] = ""
    /\ settings["COINGECKO_API_KEY"] = "undefined"
    /\ Len(gerr.parts) = 2

\* C8: the Twitter client is started only when TWITTER_ENABLED is exactly
\* "true" and a runtime was passed; when it is not enabled, or when parsing the
\* configuration or starting the client fails, createGoatPlugin goes on to
\* getOnChainActions (it never throws because of Twitter), and the tweetTrade
\* function it hands over then completes without posting and without throwing.
C8_TwitterIsOptional ==
    [][ /\ Happened("TwitterClientInterface.start")' =>
              (settings["TWITTER_ENABLED"] = "true" /\ hasRuntime)
        /\ twitterService'.client # "undefined" =>
              Happened("TwitterClientInterface.start")'
        /\ gpc \in {"twitter", "twitterStarting"} =>
              /\ gpc' \in {"twitterStarting", "actions"}
              /\ gerr' = NoError
        /\ (gpc' \in {"actions", "actionsPending", "returned"}
              /\ ~(settings["TWITTER_ENABLED"] = "true" /\ hasRuntime
                      /\ TwitterConfigParses(settings))) =>
              twitterService'.client = "undefined"
        /\ twitterService'.client = "undefined" =>
              \A i \in DOMAIN tweets' : tweets'[i] = "skipped"
      ]_vars

\* C8 witness: Twitter was enabled and a runtime passed, the client failed to
\* start, the plugin was returned all the same, and a tweetTrade call did
\* nothing.
C8_Witness ==
    /\ gpc = "returned"
    /\ settings["TWITTER_ENABLED"] = "true" /\ hasRuntime
    /\ Happened("TwitterClientInterface.start")
    /\ twitterService.client = "undefined"
    /\ tweets = <<"skipped">>

\* the items a Solana plugin field contributes; whole = first \o second
ItemsOf(field) == IF field.present THEN field.items ELSE <<>>
IsConcat(whole, first, second) ==
    /\ Len(whole) = Len(first) + Len(second)
    /\ \A i \in DOMAIN first : whole[i] = first[i]
    /\ \A i \in DOMAIN second : whole[Len(first) + i] = second[i]
\* C9: the returned plugin's actions are the custom actions followed by the
\* Solana plugin's actions, in order and without dropping any; its providers
\* the wallet provider, the trust score provider, then the Solana plugin's
\* providers; its evaluators the trust evaluator, then the Solana plugin's
\* evaluators; an absent Solana plugin field contributes nothing.
C9_PluginMergesSolana ==
    gpc = "returned" =>
        /\ IsConcat(plugin.actions, inputs.customActions, ItemsOf(inputs.solana.actions))
        /\ IsConcat(plugin.providers, <<"walletProvider", "trustScoreProvider">>,
                    ItemsOf(inputs.solana.providers))
        /\ IsConcat(plugin.evaluators, <<"trustEvaluator">>,
                    ItemsOf(inputs.solana.evaluators))
        /\ \A f \in {"actions", "providers", "evaluators"} :
              ~inputs.solana[f].present =>
                  Len(plugin[f]) = (CASE f = "actions" -> Len(inputs.customActions)
                                      [] f = "providers" -> 2
                                      [] f = "evaluators" -> 1)

\* C9 witness: a plugin was returned from two custom actions, two Solana
\* actions, a Solana provider and no Solana evaluators field.
C9_Witness ==
    /\ gpc = "returned"
    /\ inputs.customActions = <<"goatActionB", "goatActionA">>
    /\ inputs.solana.actions = Present(<<"solanaActionA", "solanaActionB">>)
    /\ inputs.solana.providers = Present(<<"solanaProvider">>)
    /\ ~inputs.solana.evaluators.present
    /\ Len(plugin.actions) = 4

(***************************************************************************)
(* Claims about startXmtpClient (SpecXmtp).                                *)
(***************************************************************************)

\* C10 (as stated): every message delivered to onMessage after createClient
\* was called, also before its promise has resolved, results in exactly one
\* xmtp.send of the same fixed response text, whatever the message and sender.
C10_EveryMessageAnswered ==
    /\ Len(sends) = Len(msgs)
    /\ \A i \in DOMAIN sends : sends[i] = RESPONSE
    /\ \A i \in DOMAIN msgs : msgs[i].outcome # "threw before send"

=============================================================================
